---- MODULE Spec2Model ----
(***************************************************************************)
(* graphutils: the discriminability statistic (utils.discr_stat and        *)
(* utils._discr_rdf) and the NdmgGraphs / NdmgStats objects built from a   *)
(* directory of edge lists (graph_io.py, graph_stats.py); Spec.            *)
(* SpecRank applies the rank normalization of line 121 of graph_stats.py   *)
(* to a matrix and again to its result; SpecKeywords calls utils.is_graph  *)
(* and utils.filter_graph_files on the module-level KEYWORDS.              *)
(*                                                                         *)
(* Arrays are sequences (1-based), matrices are sequences of rows.         *)
(* Floating point values that the code only produces as k / (2 * m) with   *)
(* m a number of samples are kept exactly, as integers in units of         *)
(* 1 / Scale.  Euclidean distances are kept squared: the code only reads   *)
(* them through < and ==, which squaring non-negative numbers preserves.   *)
(***************************************************************************)
EXTENDS Integers, Sequences, FiniteSets, TLC

VARIABLES
  pc,             \* "function": discr_stat is used on its own; otherwise the
                  \* life of an NdmgStats object: "new", "ready" or "failed"
  directory,      \* the edge list files of the directory given to the object
  files,          \* self.files
  nx_graphs,      \* self.nx_graphs
  vertices,       \* self.vertices
  graphs,         \* self.graphs
  subjects,       \* self.subjects
  sessions,       \* self.sessions
  X,              \* the X argument of discr_stat / self.X
  Y,              \* the Y argument of discr_stat / self.Y
  dissimilarity,  \* the dissimilarity argument that goes with X
  call,           \* the arguments of the last call
  result,         \* what the last call returned or raised
  ranked,         \* the ranked copy of the graphs that the last call of
                  \* discriminability built (line 121), <<>> if it built none
  KEYWORDS        \* utils.KEYWORDS, the module-level list is_graph reads

object == <<directory, files, nx_graphs, vertices, graphs, subjects, sessions>>

vars == <<pc, object, X, Y, dissimilarity, call, result, ranked, KEYWORDS>>

(* ------------------------------ bounds -------------------------------- *)

\* Largest number of samples passed to discr_stat.
MaxN == 5

\* Labels a sample can carry, and the values of its single feature.
Labels == {1, 2, 3}
FeatureValues == {0, 1}

\* Largest number of edge list files in a directory.
MaxFiles == 4

\* The subject and session ids a file name can carry, and the edge lists a
\* file can hold: lines <<u, v, weight>>.
SubjectIds == {1, 2, 3}
SessionIds == {1, 2}
EdgeLists ==
  { <<<<1, 2, 5>>, <<2, 3, 7>>>>,
    <<<<3, 1, 2>>>>,
    <<<<2, 5, 1>>, <<5, 5, 3>>>> }

\* Largest length the keyword list is let grow to.
MaxKeywords == 5

\* The atlas and suffix arguments given to is_graph.
Atlases == {"", "desikan", "DESIKAN", "aal"}

Suffixes == {"", "csv", ".csv", "ssv"}

\* File names: parts holds those of the strings sub, ses and the atlas names
\* that occur in the name, suffix is Path(filename).suffix.
Filenames ==
  { [parts |-> {"sub", "ses", "desikan"}, suffix |-> ".csv"],
    [parts |-> {"sub", "ses", "aal"}, suffix |-> ".csv"],
    [parts |-> {"sub", "ses"}, suffix |-> ".ssv"],
    [parts |-> {"sub", "ses", "DESIKAN"}, suffix |-> ".csv"],
    [parts |-> {"sub", "aal"}, suffix |-> ""] }

\* Largest length of the file list given to filter_graph_files.
MaxFileList == 2

\* Largest number of vertices of a weight matrix passed to pass_to_ranks on
\* its own, and the weights of its cells.
MaxDim == 2

Weights == {0, 1, 2, 3}

(* ----------------------------- helpers -------------------------------- *)

\* KEYWORDS = ["sub", "ses"]
InitialKeywords == <<"sub", "ses">>

SetMin(S) == CHOOSE m \in S : \A o \in S : m <= o

SetMax(S) == CHOOSE m \in S : \A o \in S : m >= o

\* np.sort of a collection without duplicates: ascending order.
RECURSIVE SortedSeq(_)
SortedSeq(S) ==
  IF S = {} THEN <<>> ELSE <<SetMin(S)>> \o SortedSeq(S \ {SetMin(S)})

Range(s) == {s[k] : k \in DOMAIN s}

\* a[mask] for a boolean mask of the same length: the selected items in order.
RECURSIVE Compress(_, _)
Compress(a, mask) ==
  IF Len(a) = 0 THEN <<>>
  ELSE (IF Head(mask) THEN <<Head(a)>> ELSE <<>>) \o Compress(Tail(a), Tail(mask))

RECURSIVE SumTo(_, _)
SumTo(s, n) == IF n = 0 THEN 0 ELSE s[n] + SumTo(s, n - 1)

SumSeq(s) == SumTo(s, Len(s))

RECURSIVE Flatten(_)
Flatten(rows) == IF Len(rows) = 0 THEN <<>> ELSE Head(rows) \o Flatten(Tail(rows))

RECURSIVE Gcd(_, _)
Gcd(a, b) == IF b = 0 THEN a ELSE Gcd(b, a % b)

RECURSIVE LcmUpTo(_)
LcmUpTo(n) == IF n <= 1 THEN 1 ELSE (LcmUpTo(n - 1) * n) \div Gcd(LcmUpTo(n - 1), n)

\* One unit of an rdf value is 1 / Scale; 2 * m divides Scale for m in 1..MaxN.
Scale == 2 * LcmUpTo(MaxN)

\* np.nan: a table cell or a statistic that is not a number.
NaN == -1

(* --------------------------- utils.discr_stat ------------------------- *)

\* sklearn check_X_y as the code relies on it: X and Y of equal, non-zero length.
CheckXY(x, y) == Len(x) = Len(y) /\ Len(x) >= 1

\* np.unique(Y, return_counts=True): the sorted labels and their counts.
Uniques(y) == SortedSeq(Range(y))

Counts(y) ==
  LET uniques == Uniques(y)
  IN [k \in 1..Len(uniques) |-> Cardinality({i \in DOMAIN y : y[i] = uniques[k]})]

\* Faults of the guard: (counts == 1).sum() <= 1, len(uniques) <= 1 and
\* (counts != 1).sum() < 1.
SingleIdCountsSingletons(y) ==
  LET counts == Counts(y)
  IN Cardinality({k \in DOMAIN counts : counts[k] = 1}) <= 1

SingleIdFewLabels(y) == Len(Uniques(y)) <= 1

SingleIdNoneRepeated(y) ==
  LET counts == Counts(y)
  IN Cardinality({k \in DOMAIN counts : counts[k] # 1}) < 1

\* (counts != 1).sum() <= 1
SingleId(y) ==
  LET counts == Counts(y)
  IN Cardinality({k \in DOMAIN counts : counts[k] # 1}) <= 1

\* Fault: np.isin(Y, uniques), every sample kept.
IsinAny(y) == [i \in DOMAIN y |-> y[i] \in Range(Uniques(y))]

\* np.isin(Y, uniques[counts != 1])
IsinRepeated(y) ==
  LET uniques == Uniques(y)
      counts == Counts(y)
      repeated == {uniques[k] : k \in {c \in DOMAIN counts : counts[c] # 1}}
  IN [i \in DOMAIN y |-> y[i] \in repeated]

\* X[idx] for euclidean input, X[np.ix_(idx, idx)] for a precomputed matrix.
TakeSamples(x, idx, dis) ==
  LET rows == Compress(x, idx)
  IN IF dis = "euclidean" THEN rows
     ELSE [r \in 1..Len(rows) |-> Compress(rows[r], idx)]

\* sklearn euclidean_distances(X), squared.
EuclideanDistances(x) ==
  [i \in 1..Len(x) |->
     [j \in 1..Len(x) |->
        SumSeq([f \in 1..Len(x[i]) |-> (x[i][f] - x[j][f]) * (x[i][f] - x[j][f])])]]

\* Faults: a tie counted as a whole, (Dij <= d).sum(), and a tie not counted.
RdfValueTieWhole(Dij, d) ==
  IF Len(Dij) = 0 THEN NaN
  ELSE Scale - 2 * Cardinality({k \in DOMAIN Dij : Dij[k] <= d})
               * (Scale \div (2 * Len(Dij)))

RdfValueTieIgnored(Dij, d) ==
  IF Len(Dij) = 0 THEN NaN
  ELSE Scale - 2 * Cardinality({k \in DOMAIN Dij : Dij[k] < d})
               * (Scale \div (2 * Len(Dij)))

\* 1 - ((Dij < d).sum() + 0.5 * (Dij == d).sum()) / Dij.size, in units of 1/Scale;
\* 0.0 / 0 is nan.
RdfValue(Dij, d) ==
  IF Len(Dij) = 0 THEN NaN
  ELSE Scale - (2 * Cardinality({k \in DOMAIN Dij : Dij[k] < d})
                 + Cardinality({k \in DOMAIN Dij : Dij[k] = d}))
               * (Scale \div (2 * Len(Dij)))

\* idx = labels == label; Dij = di[~idx]
BetweenLabel(di, labels, i) ==
  Compress(di, [j \in DOMAIN labels |-> ~(labels[j] = labels[i])])

\* idx[i] = False; Dii = di[idx]
WithinLabel(di, labels, i) ==
  Compress(di, [[j \in DOMAIN labels |-> labels[j] = labels[i]] EXCEPT ![i] = FALSE])

\* One pass of the loop of _discr_rdf: the rdf list of sample i.
RdfRow(dissimilarities, labels, i) ==
  LET di == dissimilarities[i]
      Dij == BetweenLabel(di, labels, i)
      Dii == WithinLabel(di, labels, i)
  IN [k \in 1..Len(Dii) |-> RdfValue(Dij, Dii[k])]

\* out = np.full((len(rdfs), max(map(len, rdfs))), np.nan); out[i, :len(rdf)] = rdf
PadTable(rdfs) ==
  LET width == SetMax({Len(rdfs[i]) : i \in DOMAIN rdfs})
  IN [i \in DOMAIN rdfs |->
        [c \in 1..width |-> IF c <= Len(rdfs[i]) THEN rdfs[i][c] ELSE NaN]]

\* The loop and the padding of _discr_rdf (after its check_X_y).
DiscrRdf(dissimilarities, labels) ==
  PadTable([i \in 1..Len(labels) |-> RdfRow(dissimilarities, labels, i)])

\* Fault: np.nansum(rdfs) / rdfs.size, the padding counted as cells.
NanMeanOverAllCells(table) ==
  LET cells == Flatten(table)
      real == SelectSeq(cells, LAMBDA v : v # NaN)
  IN <<SumSeq(real), Len(cells)>>

\* np.nanmean: <<sum, count>> of the cells that are numbers, in units of 1/Scale;
\* the mean is sum / count, and nan when no cell is a number.
NanMean(table) ==
  LET cells == Flatten(table)
      real == SelectSeq(cells, LAMBDA v : v # NaN)
  IN <<SumSeq(real), Len(real)>>

Raised(kind) == [kind |-> kind, stat |-> <<0, 0>>, rdfs |-> <<>>]

\* discr_stat(X, Y, dissimilarity, remove_isolates, return_rdfs).  kind is "ok"
\* for a return, "check_X_y" for the ValueError of sklearn's validation (in
\* discr_stat, euclidean_distances or _discr_rdf) and "single_id" for the
\* ValueError of line 96.
DiscrStat(x, y, dis, remove_isolates, return_rdfs) ==
  IF ~CheckXY(x, y) THEN Raised("check_X_y")
  ELSE IF SingleId(y) THEN Raised("single_id")
  ELSE
    LET idx == IsinRepeated(y)
        labels == IF remove_isolates THEN Compress(y, idx) ELSE y
        xs == IF remove_isolates THEN TakeSamples(x, idx, dis) ELSE x
        dissimilarities == IF dis = "euclidean" THEN EuclideanDistances(xs) ELSE xs
    IN IF ~CheckXY(dissimilarities, labels) THEN Raised("check_X_y")
       ELSE LET rdfs == DiscrRdf(dissimilarities, labels)
            IN [kind |-> "ok", stat |-> NanMean(rdfs),
                rdfs |-> IF return_rdfs THEN rdfs ELSE <<>>]

(* ------------------- discr_stat as a pure function -------------------- *)

NoCall == [remove_isolates |-> FALSE, return_rdfs |-> FALSE, PTR |-> FALSE]

NoResult == [kind |-> "none", stat |-> <<0, 0>>, rdfs |-> <<>>]

\* Feature input: one row per sample, one feature.
FeatureMatrix(p) == [i \in DOMAIN p |-> <<p[i]>>]

\* Precomputed input: a square, zero-diagonal, non-negative table that is
\* neither symmetric nor a metric.
PrecomputedMatrix(p) ==
  [i \in DOMAIN p |-> [j \in DOMAIN p |-> IF i = j THEN 0 ELSE p[i] + 2 * p[j]]]

\* The datasets: up to MaxN samples, the first one with the smallest label and
\* the smallest feature value; Y of the length of X, or of length 1.
InitDiscr ==
  /\ \E n \in 1..MaxN :
       /\ \E p \in {q \in [1..n -> FeatureValues] : q[1] = SetMin(FeatureValues)} :
            \/ X = FeatureMatrix(p) /\ dissimilarity = "euclidean"
            \/ X = PrecomputedMatrix(p) /\ dissimilarity = "precomputed"
       /\ \E m \in {n, 1} : Y \in {l \in [1..m -> Labels] : l[1] = SetMin(Labels)}
  /\ pc = "function"
  /\ directory = {} /\ files = <<>> /\ nx_graphs = <<>> /\ vertices = <<>>
  /\ graphs = <<>> /\ subjects = <<>> /\ sessions = <<>>
  /\ call = NoCall
  /\ result = NoResult
  /\ ranked = <<>>
  /\ KEYWORDS = InitialKeywords

\* A call of discr_stat.  The function rebinds its local names (X = X[idx],
\* labels = Y[idx]) and writes only into arrays it made itself (idx, out), so
\* the caller's X and Y stay as they are.
DiscrStatCall ==
  /\ pc = "function"
  /\ \E remove_isolates \in BOOLEAN, return_rdfs \in BOOLEAN :
       /\ result' = DiscrStat(X, Y, dissimilarity, remove_isolates, return_rdfs)
       /\ call' = [NoCall EXCEPT !.remove_isolates = remove_isolates,
                                 !.return_rdfs = return_rdfs]
  /\ UNCHANGED <<pc, object, X, Y, dissimilarity, ranked, KEYWORDS>>

(* ------------------- graph_io.NdmgDirectory / NdmgGraphs --------------- *)

\* A file is named sub-<sub>_ses-<ses>_dwi_... and holds an edge list; paths
\* sort by subject, then session.
PathBefore(f, g) == f.sub < g.sub \/ (f.sub = g.sub /\ f.ses < g.ses)

\* NdmgDirectory._files: sorted(output).
RECURSIVE SortedFiles(_)
SortedFiles(S) ==
  IF S = {} THEN <<>>
  ELSE LET first == CHOOSE f \in S : \A g \in S \ {f} : PathBefore(f, g)
       IN <<first>> \o SortedFiles(S \ {first})

\* G.nodes of nx.read_weighted_edgelist: the endpoints in order of first mention.
RECURSIVE NodesOf(_, _)
NodesOf(edges, seen) ==
  IF Len(edges) = 0 THEN seen
  ELSE LET u == Head(edges)[1]
           v == Head(edges)[2]
           withU == IF u \in Range(seen) THEN seen ELSE Append(seen, u)
           withV == IF v \in Range(withU) THEN withU ELSE Append(withU, v)
       IN NodesOf(Tail(edges), withV)

\* Fault: the file read as a directed graph, an edge found from its first
\* endpoint only.
RECURSIVE WeightOfDirected(_, _, _)
WeightOfDirected(edges, a, b) ==
  IF Len(edges) = 0 THEN 0
  ELSE LET e == edges[Len(edges)]
       IN IF e[1] = a /\ e[2] = b THEN e[3]
          ELSE WeightOfDirected(SubSeq(edges, 1, Len(edges) - 1), a, b)

\* The weight G holds for the edge {a, b}: that of its last line, 0 if none.
RECURSIVE WeightOf(_, _, _)
WeightOf(edges, a, b) ==
  IF Len(edges) = 0 THEN 0
  ELSE LET e == edges[Len(edges)]
       IN IF {e[1], e[2]} = {a, b} THEN e[3]
          ELSE WeightOf(SubSeq(edges, 1, Len(edges) - 1), a, b)

\* NdmgGraphs._nx_graphs: one graph per file, in the order of self.files.
NxGraphs(fs) ==
  [k \in DOMAIN fs |-> [nodes |-> NodesOf(fs[k].edges, <<>>), edges |-> fs[k].edges]]

\* Fault: np.append(a, b), duplicates kept.
Append1d(a, b) == a \o b

\* np.union1d(a, b): the sorted, duplicate-free union.
Union1d(a, b) == SortedSeq(Range(a) \cup Range(b))

\* Fault: reduce(np.intersect1d, node_lists).
RECURSIVE ReduceIntersect1d(_, _)
ReduceIntersect1d(acc, rest) ==
  IF Len(rest) = 0 THEN acc
  ELSE ReduceIntersect1d(SortedSeq(Range(acc) \cap Range(Head(rest))), Tail(rest))

\* functools.reduce(np.union1d, node_lists) for a non-empty list.
RECURSIVE ReduceUnion1d(_, _)
ReduceUnion1d(acc, rest) ==
  IF Len(rest) = 0 THEN acc ELSE ReduceUnion1d(Union1d(acc, Head(rest)), Tail(rest))

\* np.sort of an array: ascending, every item kept.
RECURSIVE Insert(_, _)
Insert(sorted, v) ==
  IF Len(sorted) = 0 THEN <<v>>
  ELSE IF v <= Head(sorted) THEN <<v>> \o sorted
  ELSE <<Head(sorted)>> \o Insert(Tail(sorted), v)

RECURSIVE NpSort(_)
NpSort(a) == IF Len(a) = 0 THEN <<>> ELSE Insert(NpSort(Tail(a)), Head(a))

\* NdmgGraphs._vertices for the node lists of self.nx_graphs.
Vertices(node_lists) == NpSort(ReduceUnion1d(Head(node_lists), Tail(node_lists)))

\* NdmgGraphs.sort_nx_graphs: graph.add_nodes_from(self.vertices).
RECURSIVE AddNodesFrom(_, _)
AddNodesFrom(nodes, more) ==
  IF Len(more) = 0 THEN nodes
  ELSE AddNodesFrom(IF Head(more) \in Range(nodes) THEN nodes
                    ELSE Append(nodes, Head(more)), Tail(more))

\* nx.to_numpy_array(G, nodelist): the dense symmetric matrix over nodelist.
ToNumpyArray(edges, nodelist) ==
  [i \in DOMAIN nodelist |->
     [j \in DOMAIN nodelist |-> WeightOf(edges, nodelist[i], nodelist[j])]]

\* graspy import_edgelist(files): reads every file again, takes the sorted
\* union of their nodes and gives one matrix per file over it.
ImportEdgelist(fs) ==
  LET read == NxGraphs(fs)
      union == Vertices([k \in DOMAIN read |-> read[k].nodes])
  IN [k \in DOMAIN fs |-> ToNumpyArray(fs[k].edges, union)]

\* NdmgGraphs._graphs: np.atleast_3d of the list of matrices.
Graphs(fs) == ImportEdgelist(fs)

(* --------------------------- graph_stats.NdmgStats --------------------- *)

\* Fault: the rows of X stacked from the last graph to the first.
XOfReversed(tensor) ==
  [k \in DOMAIN tensor |-> Flatten(tensor[Len(tensor) + 1 - k])]

\* NdmgStats._X for a 3-D tensor: np.reshape(graphs, (n, v1 * v2)), row-major.
XOf(tensor) == [k \in DOMAIN tensor |-> Flatten(tensor[k])]

\* Ranks divided by (count + 1) are kept in units of 1 / RankScale.
VertexIds == UNION {UNION {{e[k][1], e[k][2]} : k \in DOMAIN e} : e \in EdgeLists}

MaxNonzero ==
  SetMax({Cardinality({<<a, b>> \in VertexIds \X VertexIds : WeightOf(e, a, b) # 0})
           : e \in EdgeLists} \cup {MaxDim * MaxDim})

RankScale == 2 * LcmUpTo(MaxNonzero + 1)

\* Fault: ranks counted from 0 (as np.argsort gives them), so that the
\* smallest nonzero entry loses half a rank or more.
PassToRanksFromZero(graph) ==
  LET cells == Flatten(graph)
      non_zeros == SelectSeq(cells, LAMBDA v : v # 0)
      rank(v) == 2 * Cardinality({k \in DOMAIN non_zeros : non_zeros[k] < v})
                 + Cardinality({k \in DOMAIN non_zeros : non_zeros[k] = v}) - 1
  IN [i \in DOMAIN graph |->
       [j \in DOMAIN graph[i] |->
          IF graph[i][j] = 0 THEN 0
          ELSE rank(graph[i][j]) * (RankScale \div (2 * (Len(non_zeros) + 1)))]]

\* graspy pass_to_ranks(graph), method simple-nonzero: the nonzero entries get
\* scipy rankdata's average rank among them over (their number + 1); zeros stay.
PassToRanks(graph) ==
  LET cells == Flatten(graph)
      non_zeros == SelectSeq(cells, LAMBDA v : v # 0)
      rank(v) == 2 * Cardinality({k \in DOMAIN non_zeros : non_zeros[k] < v})
                 + Cardinality({k \in DOMAIN non_zeros : non_zeros[k] = v}) + 1
  IN [i \in DOMAIN graph |->
       [j \in DOMAIN graph[i] |->
          IF graph[i][j] = 0 THEN 0
          ELSE rank(graph[i][j]) * (RankScale \div (2 * (Len(non_zeros) + 1)))]]

\* Fault: pass_to_ranks(graphs), the nonzero entries of the whole batch
\* ranked together.
RankPooled(tensor) ==
  LET cells == Flatten([k \in DOMAIN tensor |-> Flatten(tensor[k])])
      non_zeros == SelectSeq(cells, LAMBDA v : v # 0)
      rank(v) == 2 * Cardinality({k \in DOMAIN non_zeros : non_zeros[k] < v})
                 + Cardinality({k \in DOMAIN non_zeros : non_zeros[k] = v}) + 1
  IN [k \in DOMAIN tensor |->
       [i \in DOMAIN tensor[k] |->
          [j \in DOMAIN tensor[k][i] |->
             IF tensor[k][i][j] = 0 THEN 0
             ELSE (rank(tensor[k][i][j]) * RankScale) \div (2 * (Len(non_zeros) + 1))]]]

\* np.array([pass_to_ranks(graph) for graph in graphs]): each graph on its own.
RankEach(tensor) == [k \in DOMAIN tensor |-> PassToRanks(tensor[k])]

\* Fault: graphs = self.graphs, no copy taken.
NpView(tensor) == [shared |-> TRUE, data |-> tensor]

\* np.copy(self.graphs): a new array; shared says whether writing into it
\* writes into self.graphs.
NpCopy(tensor) == [shared |-> FALSE, data |-> tensor]

\* NdmgStats(directory): NdmgDirectory.__init__, NdmgGraphs.__init__ and
\* NdmgStats.__init__.  A directory without graph files raises ValueError.
\* The atlas is left at its default "", with which is_graph appends nothing
\* to KEYWORDS.
Construct ==
  /\ pc = "new"
  /\ files' = SortedFiles(directory)
  /\ IF directory = {}
     THEN /\ pc' = "failed"
          /\ UNCHANGED <<nx_graphs, vertices, graphs, subjects, sessions, X, Y>>
     ELSE LET fs == SortedFiles(directory)
              read == NxGraphs(fs)
              union == Vertices([k \in DOMAIN read |-> read[k].nodes])
              tensor == Graphs(fs)
          IN /\ pc' = "ready"
             /\ vertices' = union
             /\ nx_graphs' = [k \in DOMAIN read |->
                                [read[k] EXCEPT !.nodes = AddNodesFrom(@, union)]]
             /\ graphs' = tensor
             /\ subjects' = [k \in DOMAIN fs |-> fs[k].sub]
             /\ sessions' = [k \in DOMAIN fs |-> fs[k].ses]
             /\ X' = XOf(tensor)
             /\ Y' = [k \in DOMAIN fs |-> fs[k].sub]
  /\ UNCHANGED <<directory, dissimilarity, call, result, ranked, KEYWORDS>>

\* NdmgStats.discriminability(PTR, remove_isolates=...).  With PTR the graphs
\* are copied, each copy is passed to ranks (the library may write the ranks
\* into the array it is given, inplace, or into a new one) and discr_stat runs
\* on the X of the ranked graphs.  self.X is a reshape of self.graphs and
\* shares its memory.
Discriminability ==
  /\ pc = "ready"
  /\ \E PTR \in BOOLEAN, remove_isolates \in BOOLEAN :
     \E inplace \in IF PTR THEN BOOLEAN ELSE {FALSE} :
       LET buffer == NpCopy(graphs)
           ranks == RankEach(buffer.data)
           written == PTR /\ inplace /\ buffer.shared
       IN /\ graphs' = IF written THEN ranks ELSE graphs
          /\ X' = IF written THEN XOf(ranks) ELSE X
          /\ ranked' = IF PTR THEN ranks ELSE <<>>
          /\ result' = DiscrStat(IF PTR THEN XOf(ranks) ELSE X, Y, "euclidean",
                                 remove_isolates, FALSE)
          /\ call' = [NoCall EXCEPT !.PTR = PTR, !.remove_isolates = remove_isolates]
  /\ UNCHANGED <<pc, directory, files, nx_graphs, vertices, subjects, sessions, Y,
                 dissimilarity, KEYWORDS>>

\* The directories: up to MaxFiles files of distinct names, each with one of
\* the edge lists.
InitStats ==
  /\ pc = "new"
  /\ \E names \in SUBSET (SubjectIds \X SessionIds) :
       /\ Cardinality(names) <= MaxFiles
       /\ \E content \in [names -> EdgeLists] :
            directory = {[sub |-> n[1], ses |-> n[2], edges |-> content[n]] : n \in names}
  /\ files = <<>> /\ nx_graphs = <<>> /\ vertices = <<>>
  /\ graphs = <<>> /\ subjects = <<>> /\ sessions = <<>>
  /\ X = <<>> /\ Y = <<>>
  /\ dissimilarity = "euclidean"
  /\ call = NoCall
  /\ result = NoResult
  /\ ranked = <<>>
  /\ KEYWORDS = InitialKeywords

Init == InitDiscr \/ InitStats

(* ------------------ utils.is_graph, filter_graph_files ----------------- *)

\* atlas.lower()
Lower(atlas) == IF atlas = "DESIKAN" THEN "desikan" ELSE atlas

\* The suffix compared with Path(filename).suffix: a "." is put before a
\* non-empty suffix that does not start with one.
DottedSuffix(suffix) ==
  IF suffix = "csv" THEN ".csv" ELSE IF suffix = "ssv" THEN ".ssv" ELSE suffix

\* i in str(filename)
Contains(filename, i) == i \in filename.parts

\* The list is_graph reads in line 35: KEYWORDS after line 28.
AppendAtlas(keywords, atlas) ==
  IF atlas # "" THEN Append(keywords, Lower(atlas)) ELSE keywords

\* What is_graph(filename, atlas, suffix) returns when KEYWORDS is keywords.
IsGraph(keywords, filename, atlas, suffix) ==
  LET read == AppendAtlas(keywords, atlas)
      correct_suffix == filename.suffix = DottedSuffix(suffix)
      correct_filename == \A k \in DOMAIN read : Contains(filename, read[k])
  IN correct_suffix /\ correct_filename

\* list(filter_graph_files(file_list, atlas=atlas, suffix=suffix)): is_graph
\* is called on every file in turn; gives the files kept and KEYWORDS after.
RECURSIVE FilterGraphFiles(_, _, _, _)
FilterGraphFiles(keywords, file_list, atlas, suffix) ==
  IF Len(file_list) = 0 THEN [kept |-> <<>>, keywords |-> keywords]
  ELSE LET rest == FilterGraphFiles(AppendAtlas(keywords, atlas), Tail(file_list),
                                    atlas, suffix)
       IN [kept |-> (IF IsGraph(keywords, Head(file_list), atlas, suffix)
                     THEN <<Head(file_list)>> ELSE <<>>) \o rest.kept,
           keywords |-> rest.keywords]

\* The module as imported.
InitKeywords ==
  /\ pc = "module"
  /\ KEYWORDS = InitialKeywords
  /\ directory = {} /\ files = <<>> /\ nx_graphs = <<>> /\ vertices = <<>>
  /\ graphs = <<>> /\ subjects = <<>> /\ sessions = <<>>
  /\ X = <<>> /\ Y = <<>> /\ ranked = <<>>
  /\ dissimilarity = "euclidean"
  /\ call = [kind |-> "none"]
  /\ result = [kind |-> "none"]

\* A call of is_graph.
IsGraphCall ==
  /\ pc = "module"
  /\ Len(KEYWORDS) < MaxKeywords
  /\ \E filename \in Filenames, atlas \in Atlases, suffix \in Suffixes :
       /\ KEYWORDS' = AppendAtlas(KEYWORDS, atlas)
       /\ result' = [kind |-> "is_graph",
                     value |-> IsGraph(KEYWORDS, filename, atlas, suffix)]
       /\ call' = [kind |-> "is_graph", filename |-> filename, atlas |-> atlas,
                   suffix |-> suffix]
  /\ UNCHANGED <<pc, object, X, Y, dissimilarity, ranked>>

\* A call of filter_graph_files, its generator run to the end.
FilterGraphFilesCall ==
  /\ pc = "module"
  /\ \E n \in 0..MaxFileList :
       /\ Len(KEYWORDS) + n <= MaxKeywords
       /\ \E file_list \in [1..n -> Filenames], atlas \in Atlases,
             suffix \in Suffixes :
            LET run == FilterGraphFiles(KEYWORDS, file_list, atlas, suffix)
            IN /\ KEYWORDS' = run.keywords
               /\ result' = [kind |-> "filter_graph_files", value |-> run.kept]
               /\ call' = [kind |-> "filter_graph_files", file_list |-> file_list,
                           atlas |-> atlas, suffix |-> suffix]
  /\ UNCHANGED <<pc, object, X, Y, dissimilarity, ranked>>

NextKeywords == IsGraphCall \/ FilterGraphFilesCall

SpecKeywords == InitKeywords /\ [][NextKeywords]_vars

(* ------------------- pass_to_ranks as a pure function ------------------ *)

\* The symmetric matrices of non-negative weights over 1 to MaxDim vertices.
WeightMatrices ==
  UNION {{m \in [1..v -> [1..v -> Weights]] : \A i, j \in 1..v : m[i][j] = m[j][i]}
          : v \in 1..MaxDim}

\* A batch of one matrix, not ranked yet.
InitRank ==
  /\ pc = "matrix"
  /\ \E m \in WeightMatrices : graphs = <<m>>
  /\ ranked = <<>>
  /\ KEYWORDS = InitialKeywords
  /\ directory = {} /\ files = <<>> /\ nx_graphs = <<>> /\ vertices = <<>>
  /\ subjects = <<>> /\ sessions = <<>>
  /\ X = <<>> /\ Y = <<>>
  /\ dissimilarity = "euclidean"
  /\ call = NoCall
  /\ result = NoResult

\* Line 121 on the graphs as they are, then on what it gave: pc counts the
\* applications, "once" and "twice".
PassToRanksCall ==
  /\ pc \in {"matrix", "once"}
  /\ ranked' = RankEach(IF pc = "matrix" THEN graphs ELSE ranked)
  /\ pc' = IF pc = "matrix" THEN "once" ELSE "twice"
  /\ UNCHANGED <<object, X, Y, dissimilarity, call, result, KEYWORDS>>

NextRank == PassToRanksCall

SpecRank == InitRank /\ [][NextRank]_vars

Next == DiscrStatCall \/ Construct \/ Discriminability

Spec == Init /\ [][Next]_vars

(* ---------------- what the claims say, in their own terms -------------- *)

\* How often label l occurs in y.
Occurrences(y, l) == Cardinality({i \in DOMAIN y : y[i] = l})

\* Labels of y that occur more than once.
RepeatedLabels(y) == {l \in Range(y) : Occurrences(y, l) > 1}

\* The positions of the samples the statistic is computed over, ascending.
RetainedSamples(y, remove_isolates) ==
  SortedSeq(IF remove_isolates THEN {i \in DOMAIN y : Occurrences(y, y[i]) > 1}
            ELSE DOMAIN y)

\* The dissimilarity between samples a and b of the input (squared if Euclidean).
Dist(x, dis, a, b) ==
  IF dis = "precomputed" THEN x[a][b]
  ELSE SumSeq([f \in DOMAIN x[a] |-> (x[a][f] - x[b][f]) * (x[a][f] - x[b][f])])

\* Among the retained samples R, those of the label of sample i, i excluded,
\* in order; and those of another label.
SameLabel(y, R, i) == SelectSeq(R, LAMBDA j : j # i /\ y[j] = y[i])
OtherLabel(y, R, i) == SelectSeq(R, LAMBDA j : y[j] # y[i])

\* The last call of discr_stat on its own returned.
Returned == pc = "function" /\ result.kind = "ok"

\* The last call returned the table as well.
ReturnedTable == Returned /\ call.return_rdfs

ThisRetained == RetainedSamples(Y, call.remove_isolates)

(* -------------------------------- C1 ---------------------------------- *)

AllLabelsUnique(y) == \A i, j \in DOMAIN y : y[i] = y[j] => i = j

\* C1: when X and Y have equal length and every label of Y occurs exactly once,
\* a call of discr_stat raises: it returns neither a number nor NaN, whatever
\* remove_isolates, dissimilarity and return_rdfs are.
C1_AllUniqueRaises ==
  (result.kind # "none" /\ Len(X) = Len(Y) /\ AllLabelsUnique(Y))
    => result.kind \in {"single_id", "check_X_y"}

C1_Witness ==
  /\ result.kind = "single_id" /\ Len(X) = Len(Y) /\ Len(Y) >= 3
  /\ AllLabelsUnique(Y) /\ ~call.remove_isolates /\ call.return_rdfs
  /\ dissimilarity = "precomputed"

(* -------------------------------- C2 ---------------------------------- *)

\* C2 as stated: whenever at least one label of Y occurs more than once (X and Y
\* of equal length), the insufficient-data error is not raised.
C2_OneRepeatedLabelSuffices ==
  (result.kind # "none" /\ Len(X) = Len(Y) /\ RepeatedLabels(Y) # {})
    => result.kind # "single_id"

\* C2 amended: the label precondition is exactly 'at least two distinct labels of
\* Y each occur more than once': for X and Y of equal length the insufficient-data
\* error is raised if and only if fewer than two labels are repeated.
C2_TwoRepeatedLabelsNeeded ==
  (result.kind # "none" /\ Len(X) = Len(Y))
    => (result.kind = "single_id" <=> Cardinality(RepeatedLabels(Y)) < 2)

C2_Witness ==
  /\ result.kind = "ok" /\ Cardinality(RepeatedLabels(Y)) = 2
  /\ \E l \in Range(Y) : Occurrences(Y, l) = 1

(* -------------------------------- C3 ---------------------------------- *)

\* C3: for every retained sample i and every distance d from i to another
\* retained sample of the same label, the table cell of d is
\* 1 - (count(Dij < d) + 0.5 * count(Dij == d)) / |Dij|, Dij being the distances
\* from i to the retained samples of another label (a tie counts one half).
C3_RdfFormula ==
  ReturnedTable =>
    LET R == ThisRetained
    IN \A r \in DOMAIN R :
         LET i == R[r]
             same == SameLabel(Y, R, i)
             other == OtherLabel(Y, R, i)
         IN \A k \in DOMAIN same :
              LET d == Dist(X, dissimilarity, i, same[k])
                  lt == Cardinality({o \in DOMAIN other :
                                      Dist(X, dissimilarity, i, other[o]) < d})
                  eq == Cardinality({o \in DOMAIN other :
                                      Dist(X, dissimilarity, i, other[o]) = d})
              IN /\ Len(other) > 0
                 /\ result.rdfs[r][k] # NaN
                 /\ (Scale - result.rdfs[r][k]) * 2 * Len(other) = Scale * (2 * lt + eq)

\* A returned table with a cell whose distance ties with a between-label one and
\* is larger than another.
C3_Witness ==
  /\ ReturnedTable
  /\ LET R == ThisRetained
     IN \E r \in DOMAIN R :
          LET i == R[r]
              same == SameLabel(Y, R, i)
              other == OtherLabel(Y, R, i)
          IN \E k \in DOMAIN same, o1, o2 \in DOMAIN other :
               /\ Dist(X, dissimilarity, i, other[o1]) = Dist(X, dissimilarity, i, same[k])
               /\ Dist(X, dissimilarity, i, other[o2]) < Dist(X, dissimilarity, i, same[k])

(* -------------------------------- C4 ---------------------------------- *)

\* Number of real cells the row of retained sample i must hold.
RealCells(i) == Occurrences(Y, Y[i]) - 1

\* C4: the table has one row per retained sample and is as wide as the largest
\* (occurrences of a retained label - 1); the row of sample i holds
\* (occurrences of its label - 1) numbers in its leftmost cells and NaN in the
\* others; the statistic is the sum of exactly those numbers over their count.
C4_TableShapeAndMean ==
  ReturnedTable =>
    LET R == ThisRetained
        table == result.rdfs
        width == SetMax({RealCells(R[r]) : r \in DOMAIN R})
        numbers == [r \in DOMAIN R |-> SubSeq(table[r], 1, RealCells(R[r]))]
    IN /\ Len(table) = Len(R)
       /\ \A r \in DOMAIN R :
            /\ Len(table[r]) = width
            /\ \A c \in 1..width : (table[r][c] # NaN) <=> (c <= RealCells(R[r]))
       /\ result.stat[2] = SumSeq([r \in DOMAIN R |-> RealCells(R[r])])
       /\ result.stat[1] = SumSeq(Flatten(numbers))

\* A returned table, two cells wide, with a padded row and a full row.
C4_Witness ==
  /\ ReturnedTable
  /\ Len(result.rdfs[1]) = 2
  /\ \E r1, r2 \in DOMAIN result.rdfs :
       /\ result.rdfs[r1][1] # NaN /\ result.rdfs[r1][2] = NaN
       /\ result.rdfs[r2][2] # NaN

(* -------------------------------- C5 ---------------------------------- *)

\* C5: for every accepted input every real cell of the table is in [0,1], the
\* statistic is a number in [0,1], and every retained sample has at least one
\* retained sample of another label (no division by zero).
C5_UnitInterval ==
  Returned =>
    /\ result.stat[2] > 0
    /\ 0 <= result.stat[1] /\ result.stat[1] <= result.stat[2] * Scale
    /\ \A r \in DOMAIN ThisRetained :
         Len(OtherLabel(Y, ThisRetained, ThisRetained[r])) > 0
    /\ call.return_rdfs =>
         \A r \in DOMAIN result.rdfs :
           /\ \A c \in DOMAIN result.rdfs[r] :
                result.rdfs[r][c] = NaN \/ result.rdfs[r][c] \in 0..Scale
           /\ \A c \in 1..RealCells(ThisRetained[r]) : result.rdfs[r][c] # NaN

\* A returned table holding a 0, a 1 and a value strictly between.
C5_Witness ==
  /\ ReturnedTable
  /\ \E v0, v1, v2 \in Range(Flatten(result.rdfs)) :
       v0 = 0 /\ v1 = Scale /\ 0 < v2 /\ v2 < Scale

(* -------------------------------- C6 ---------------------------------- *)

\* For every retained sample each within-label distance is strictly smaller than
\* each between-label distance.
Separated ==
  LET R == ThisRetained
  IN \A r \in DOMAIN R :
       \A j \in Range(SameLabel(Y, R, R[r])), k \in Range(OtherLabel(Y, R, R[r])) :
         Dist(X, dissimilarity, R[r], j) < Dist(X, dissimilarity, R[r], k)

\* All within-label distances are 0 and all between-label distances positive.
ZeroWithin ==
  LET R == ThisRetained
  IN \A r \in DOMAIN R :
       /\ \A j \in Range(SameLabel(Y, R, R[r])) : Dist(X, dissimilarity, R[r], j) = 0
       /\ \A k \in Range(OtherLabel(Y, R, R[r])) : Dist(X, dissimilarity, R[r], k) > 0

\* C6: the returned statistic is exactly 1.0 if and only if every retained
\* sample's within-label distances are all strictly smaller than its
\* between-label distances; so it is 1.0 when the former are 0 and the latter
\* positive.
C6_OneIffSeparated ==
  Returned =>
    /\ (result.stat[2] > 0 /\ result.stat[1] = result.stat[2] * Scale) <=> Separated
    /\ ZeroWithin => result.stat[1] = result.stat[2] * Scale

\* A statistic of 1.0, over within-label distances 0 and between-label
\* distances that are positive.
C6_Witness ==
  /\ Returned /\ result.stat[1] = result.stat[2] * Scale /\ ZeroWithin
  /\ Len(Y) = MaxN

(* -------------------------------- C7 ---------------------------------- *)

\* The input with the samples of singleton labels removed beforehand.
WithoutSingletonsY == [r \in DOMAIN RetainedSamples(Y, TRUE) |-> Y[RetainedSamples(Y, TRUE)[r]]]

WithoutSingletonsX ==
  LET R == RetainedSamples(Y, TRUE)
  IN IF dissimilarity = "precomputed"
     THEN [r \in DOMAIN R |-> [c \in DOMAIN R |-> X[R[r]][R[c]]]]
     ELSE [r \in DOMAIN R |-> X[R[r]]]

\* C7: with remove_isolates true the statistic is computed over exactly the
\* samples whose label occurs more than once, in their original order (rows of a
\* feature input, rows and columns of a precomputed matrix): the call returns
\* what discr_stat with remove_isolates false returns on the input from which
\* the singleton-label samples were removed beforehand.
C7_RemoveIsolates ==
  (Returned /\ call.remove_isolates) =>
    result = DiscrStat(WithoutSingletonsX, WithoutSingletonsY, dissimilarity,
                       FALSE, call.return_rdfs)

\* A default call that dropped a singleton standing between retained samples.
C7_Witness ==
  /\ ReturnedTable /\ call.remove_isolates
  /\ \E i, j, k \in DOMAIN Y :
       i < j /\ j < k /\ Occurrences(Y, Y[j]) = 1
       /\ Occurrences(Y, Y[i]) > 1 /\ Occurrences(Y, Y[k]) > 1

(* -------------------------------- C8 ---------------------------------- *)

\* C8: a call of discr_stat leaves the X and Y it is given as they are, a call
\* of NdmgStats.discriminability (PTR or not) leaves the object's graphs, X
\* and Y as they are, and the same call again returns the same result.
C8_NoMutation ==
  [][(pc \in {"function", "ready"}) =>
       (graphs' = graphs /\ X' = X /\ Y' = Y
        /\ ((result.kind # "none" /\ call' = call) => result' = result))]_vars

\* The object has returned a statistic computed on ranked graphs.
C8_Witness ==
  /\ pc = "ready" /\ call.PTR /\ result.kind = "ok"
  /\ \E k \in DOMAIN graphs : PassToRanks(graphs[k]) # graphs[k]

(* -------------------------------- C9 ---------------------------------- *)

\* The vertex ids that are an endpoint of an edge of record f.
Endpoints(f) == UNION {{f.edges[k][1], f.edges[k][2]} : k \in DOMAIN f.edges}

\* The node lists of the records as read from the files, in the order of files.
NodeLists == [k \in DOMAIN files |-> NodesOf(files[k].edges, <<>>)]

\* C9: for a non-empty batch the vertex set computed by _vertices is strictly
\* ascending (so free of duplicates), holds exactly the vertex ids that are an
\* edge endpoint in some record, and is the same for every order of the records.
C9_VertexSet ==
  pc = "ready" =>
    /\ \A k \in 1..(Len(vertices) - 1) : vertices[k] < vertices[k + 1]
    /\ Range(vertices) = UNION {Endpoints(f) : f \in directory}
    /\ LET lists == NodeLists
       IN \A perm \in Permutations(DOMAIN files) :
            Vertices([k \in DOMAIN files |-> lists[perm[k]]]) = vertices

\* A batch of three records or more, of different vertex sets, one of them
\* naming its vertices in descending order.
C9_Witness ==
  /\ pc = "ready" /\ Len(files) >= 3
  /\ \E f, g \in directory : Endpoints(f) # Endpoints(g)
  /\ \E f \in directory : f.edges[1][1] > f.edges[1][2]
  /\ Len(vertices) = Cardinality(VertexIds)

(* -------------------------------- C10 --------------------------------- *)

\* C10 as stated: the size of the vertex set is at least the largest vertex id
\* referenced by any single record.
C10_SizeAtLeastMaxId ==
  pc = "ready" => \A f \in directory : Len(vertices) >= SetMax(Endpoints(f))

\* C10 amended: the size of the vertex set is at least the number of distinct
\* vertex ids referenced by any single record, and its last (largest) element
\* is the largest vertex id referenced by any record.
C10_SizeAtLeastRecordVertices ==
  pc = "ready" =>
    /\ \A f \in directory : Len(vertices) >= Cardinality(Endpoints(f))
    /\ vertices[Len(vertices)] = SetMax(UNION {Endpoints(f) : f \in directory})

\* A batch whose vertex set is larger than the vertex set of each record.
C10_Witness ==
  /\ pc = "ready"
  /\ \A f \in directory : Len(vertices) > Cardinality(Endpoints(f))
  /\ Len(vertices) < vertices[Len(vertices)]

(* -------------------------------- C11 --------------------------------- *)

\* The lines of record f that give the edge between vertices a and b.
LinesOf(f, a, b) == {k \in DOMAIN f.edges : {f.edges[k][1], f.edges[k][2]} = {a, b}}

\* The weight of the edge between a and b in record f, 0 if it has no such edge.
EdgeWeight(f, a, b) ==
  IF LinesOf(f, a, b) = {} THEN 0 ELSE f.edges[SetMax(LinesOf(f, a, b))][3]

\* C11: after construction graphs has one V x V matrix per file, V the size of
\* vertices; cell (i, j) of matrix k is the weight of the edge between
\* vertices[i] and vertices[j] in files[k], 0 if that record has no such edge;
\* so every matrix is symmetric and a vertex absent from record k has an
\* all-zero row and column in matrix k.
C11_GraphTensor ==
  pc = "ready" =>
    LET V == DOMAIN vertices
    IN /\ Len(graphs) = Len(files)
       /\ \A k \in DOMAIN graphs :
            /\ DOMAIN graphs[k] = V
            /\ \A i \in V :
                 /\ DOMAIN graphs[k][i] = V
                 /\ \A j \in V :
                      /\ graphs[k][i][j] = EdgeWeight(files[k], vertices[i], vertices[j])
                      /\ graphs[k][i][j] = graphs[k][j][i]
                 /\ vertices[i] \notin Endpoints(files[k]) =>
                      \A j \in V : graphs[k][i][j] = 0 /\ graphs[k][j][i] = 0

\* A batch with a record that lacks a vertex of the batch, a record with a
\* self-loop, and a record naming an edge from its larger endpoint.
C11_Witness ==
  /\ pc = "ready" /\ Len(files) >= 2
  /\ \E k \in DOMAIN graphs, i \in DOMAIN vertices :
       vertices[i] \notin Endpoints(files[k])
  /\ \E k \in DOMAIN graphs, i \in DOMAIN vertices : graphs[k][i][i] # 0
  /\ \E k \in DOMAIN graphs, i, j \in DOMAIN vertices :
       /\ i < j /\ graphs[k][i][j] # 0
       /\ \E e \in Range(files[k].edges) : e[1] = vertices[j] /\ e[2] = vertices[i]

(* -------------------------------- C12 --------------------------------- *)

\* A row of v * v numbers reshaped row-major to v x v.
Reshape(row, v) == [a \in 1..v |-> [b \in 1..v |-> row[(a - 1) * v + b]]]

\* C12: the per-record outputs are aligned to the sorted file list: X, Y,
\* subjects and graphs have one item per file; row i of X has V * V numbers
\* and, reshaped row-major to V x V, is graphs[i]; Y[i] and subjects[i] are
\* the subject id of files[i]; files holds the files of the directory in
\* ascending order.
C12_IndexAligned ==
  pc = "ready" =>
    LET V == Len(vertices)
    IN /\ DOMAIN X = DOMAIN files /\ DOMAIN graphs = DOMAIN files
       /\ DOMAIN Y = DOMAIN files /\ DOMAIN subjects = DOMAIN files
       /\ \A i \in DOMAIN files :
            /\ Len(X[i]) = V * V
            /\ Reshape(X[i], V) = graphs[i]
            /\ Y[i] = files[i].sub
            /\ subjects[i] = files[i].sub
       /\ Range(files) = directory
       /\ \A i, j \in DOMAIN files : i < j => PathBefore(files[i], files[j])

\* A batch of MaxFiles files with two sessions of one subject, where
\* neighbouring files hold different graphs.
C12_Witness ==
  /\ pc = "ready" /\ Len(files) = MaxFiles
  /\ \E i, j \in DOMAIN files : i < j /\ Y[i] = Y[j]
  /\ \A i \in 1..(Len(files) - 1) : graphs[i] # graphs[i + 1]
  /\ graphs[1] # graphs[Len(graphs)]

(* -------------------------------- C13 --------------------------------- *)

\* The cells of matrix m that are not zero.
NonzeroCells(m) == {c \in (DOMAIN m) \X (DOMAIN m) : m[c[1]][c[2]] # 0}

\* Twice the average-tie rank of the value v among the nonzero entries of m:
\* the entries tied with v share the mean of the ranks they occupy.
TwiceAverageRank(m, v) ==
  2 * Cardinality({c \in NonzeroCells(m) : m[c[1]][c[2]] < v})
  + Cardinality({c \in NonzeroCells(m) : m[c[1]][c[2]] = v}) + 1

\* C13: the ranked graphs that discriminability(PTR=True) builds hold, graph
\* by graph, 0 where the graph holds 0 and elsewhere the average-tie rank of
\* the entry among the nonzero entries of that same graph, divided by (the
\* number of those entries + 1): a value strictly between 0 and 1.
C13_RankNormalization ==
  (pc = "ready" /\ call.PTR) =>
    /\ DOMAIN ranked = DOMAIN graphs
    /\ \A k \in DOMAIN graphs :
         LET m == graphs[k]
             count == Cardinality(NonzeroCells(m))
         IN /\ DOMAIN ranked[k] = DOMAIN m
            /\ \A i \in DOMAIN m :
                 /\ DOMAIN ranked[k][i] = DOMAIN m[i]
                 /\ \A j \in DOMAIN m[i] :
                      IF m[i][j] = 0 THEN ranked[k][i][j] = 0
                      ELSE /\ ranked[k][i][j] * 2 * (count + 1)
                                = RankScale * TwiceAverageRank(m, m[i][j])
                           /\ 0 < ranked[k][i][j] /\ ranked[k][i][j] < RankScale

\* A ranked batch of graphs with different numbers of nonzero entries, one
\* with tied entries ranked below others and one with an entry tied with none.
C13_Witness ==
  /\ pc = "ready" /\ call.PTR /\ Len(ranked) >= 2
  /\ \E k, l \in DOMAIN graphs :
       Cardinality(NonzeroCells(graphs[k])) # Cardinality(NonzeroCells(graphs[l]))
  /\ \E k \in DOMAIN graphs : \E c, d, e \in NonzeroCells(graphs[k]) :
       /\ c # d /\ graphs[k][c[1]][c[2]] = graphs[k][d[1]][d[2]]
       /\ graphs[k][c[1]][c[2]] < graphs[k][e[1]][e[2]]
  /\ \E k \in DOMAIN graphs : \E c \in NonzeroCells(graphs[k]) :
       \A d \in NonzeroCells(graphs[k]) \ {c} :
         graphs[k][d[1]][d[2]] # graphs[k][c[1]][c[2]]

(* -------------------------------- C14 --------------------------------- *)

\* C14 as stated: rank normalization is not idempotent: there are matrices of
\* non-negative weights (the one at hand or another) that a second
\* normalization changes, normalize(normalize(M)) differs from normalize(M).
C14_SecondApplicationChanges ==
  \E m \in WeightMatrices \cup Range(graphs) :
    PassToRanks(PassToRanks(m)) # PassToRanks(m)

\* C14 amended: rank normalization is idempotent: applied to an already
\* normalized matrix of non-negative weights it changes no value,
\* normalize(normalize(M)) = normalize(M) for every M.
C14_Idempotent == [][(pc = "once") => (ranked' = ranked)]_vars

\* A matrix that its first normalization changed, with tied and untied
\* nonzero entries and a zero, has been normalized a second time.
C14_Witness ==
  /\ pc = "twice" /\ ranked # graphs
  /\ \E c, d, e \in NonzeroCells(graphs[1]) :
       /\ c # d /\ graphs[1][c[1]][c[2]] = graphs[1][d[1]][d[2]]
       /\ graphs[1][c[1]][c[2]] < graphs[1][e[1]][e[2]]
       /\ \A f \in NonzeroCells(graphs[1]) \ {e} :
            graphs[1][f[1]][f[2]] # graphs[1][e[1]][e[2]]
  /\ \E i, j \in DOMAIN graphs[1] : graphs[1][i][j] = 0

(* -------------------------------- C15 --------------------------------- *)

\* C15: whatever calls of is_graph and filter_graph_files came before, a call
\* of is_graph leaves the keyword list as the module set it, and returns true
\* exactly when the suffix of the file is the requested one and the file name
\* contains sub, ses and the lower-cased atlas of this call.
C15_DependsOnArgumentsOnly ==
  (pc = "module" /\ call.kind = "is_graph") =>
    /\ KEYWORDS = InitialKeywords
    /\ result.value <=>
         /\ call.filename.suffix = DottedSuffix(call.suffix)
         /\ "sub" \in call.filename.parts /\ "ses" \in call.filename.parts
         /\ call.atlas # "" => Lower(call.atlas) \in call.filename.parts

====
